---- MODULE Spec2Model ----
(***************************************************************************)
(* Model of the Ad-Server event-ingestion and statistics pipeline          *)
(* (src/controller/ad_entrypoints.py).                                     *)
(*                                                                         *)
(* Conventions                                                             *)
(*  - a Python/JSON string is a sequence of one-character strings, so that  *)
(*    strip(), lower(), float() and string comparison are computed;        *)
(*  - a JSON value is a tagged record: Str(s), Num(n), Null; a key that is  *)
(*    not in a dict is simply not in the DOMAIN of the record;             *)
(*  - watch durations are whole seconds (integers); the rounded metrics    *)
(*    of calculate_ad_stats are integers counting hundredths, so 2500      *)
(*    stands for 25.0.                                                     *)
(***************************************************************************)
EXTENDS Integers, Sequences, FiniteSets, TLC

\* ------------------------------------------------------------------ values
Str(s) == [t |-> "str", s |-> s]
Num(n) == [t |-> "num", n |-> n]
Null == [t |-> "null"]

\* Python's None for an optional argument that was not passed.
None == Null

isinstance_str(v) == v.t = "str"

\* Python truthiness of a JSON value: '' , 0 and None are falsy.
truthy(v) ==
  CASE v.t = "str" -> v.s # <<>>
    [] v.t = "num" -> v.n # 0
    [] OTHER -> FALSE

\* ----------------------------------------------------------------- strings
UpperChars == <<"A","B","C","D","E","F","G","H","I","J","K","L","M",
                "N","O","P","Q","R","S","T","U","V","W","X","Y","Z">>
LowerChars == <<"a","b","c","d","e","f","g","h","i","j","k","l","m",
                "n","o","p","q","r","s","t","u","v","w","x","y","z">>

lower_char(c) ==
  IF \E i \in 1..Len(UpperChars) : UpperChars[i] = c
  THEN LowerChars[CHOOSE i \in 1..Len(UpperChars) : UpperChars[i] = c]
  ELSE c

\* str.lower()
lower(s) == [i \in 1..Len(s) |-> lower_char(s[i])]

IsSpace(c) == c = " "

RECURSIVE lstrip(_)
lstrip(s) == IF s # <<>> /\ IsSpace(Head(s)) THEN lstrip(Tail(s)) ELSE s

RECURSIVE rstrip(_)
rstrip(s) ==
  IF s # <<>> /\ IsSpace(s[Len(s)]) THEN rstrip(SubSeq(s, 1, Len(s) - 1)) ELSE s

\* str.strip()
strip(s) == lstrip(rstrip(s))

\* ------------------------------------------------------------- arithmetic
\* round(a / b, 0) for a >= 0, b > 0: nearest integer, ties to even
\* (Python's round).
RoundDiv(a, b) ==
  LET q == a \div b
      r == a % b
  IN  IF 2 * r < b THEN q
      ELSE IF 2 * r > b THEN q + 1
      ELSE IF q % 2 = 0 THEN q ELSE q + 1

\* round(num / den * scale, 2) counted in hundredths.
round2_mutant(num, den, scale) == RoundDiv(100 * num, den)
round2(num, den, scale) == RoundDiv(100 * scale * num, den)

\* dict.get(key, default)
get(d, key, default) == IF key \in DOMAIN d THEN d[key] ELSE default

\* --------------------------------------------------- calculate_ad_stats
s_low == <<"l","o","w">>
s_medium == <<"m","e","d","i","u","m">>
s_high == <<"h","i","g","h">>

BUDGET_LEVELS == (s_low :> 1) @@ (s_medium :> 2) @@ (s_high :> 3)

budget_weight_mutant(budget) ==
  LET budget_level == IF isinstance_str(budget) THEN budget.s ELSE <<>>
  IN  get(BUDGET_LEVELS, budget_level, 1)
budget_weight(budget) ==
  LET budget_level == IF isinstance_str(budget) THEN lower(strip(budget.s)) ELSE <<>>
  IN  get(BUDGET_LEVELS, budget_level, 1)

conv_rate_mutant(views, clicks, budget) == round2(clicks, budget_weight(budget), 100)
conv_rate(views, clicks, budget) ==
  IF views # 0 THEN round2(clicks, budget_weight(budget), 100) ELSE 0

calculate_ad_stats(stats_data, budget) ==
  LET views == get(stats_data, "views", 0)
      clicks == get(stats_data, "clicks", 0)
      skips == get(stats_data, "skips", 0)
      watch_sum == get(stats_data, "watchDurationSum", 0)
      avg_watch == IF views # 0 THEN round2(watch_sum, views, 1) ELSE 0
      ctr == IF views # 0 THEN round2(clicks, views, 100) ELSE 0
      stats == [views |-> views, clicks |-> clicks, skips |-> skips,
                avgWatchDuration |-> avg_watch, clickThroughRate |-> ctr]
  IN  IF truthy(budget)
      THEN stats @@ [conversionRate |-> conv_rate(views, clicks, budget)]
      ELSE stats


\* ------------------------------------------------------------------ bounds
NumProcs == 2          \* concurrent request handlers
MaxRequests == 3       \* requests for events, statistics, updates and deletions
MaxPerformers == 2     \* create_performer requests
MaxAds == 3            \* create_ad requests
MaxEvents == 2         \* send_ad_event requests
MaxUpdates == 1        \* update_ad requests
MaxDeletes == 1        \* delete_ad requests
MaxStats == 1          \* get_ad_statistics requests
MaxFailures == 1       \* storage operations that raise
MaxTicks == 1          \* midnights (UTC) that pass

Procs == 1..NumProcs

\* --------------------------------------------------------------- pure code
\* float(x): Python accepts a number, or a string holding an optionally
\* signed decimal with surrounding whitespace; anything else raises
\* ValueError / TypeError.
Digits == <<"0","1","2","3","4","5","6","7","8","9">>
IsDigit(c) == \E i \in 1..10 : Digits[i] = c
DigitVal(c) == (CHOOSE i \in 1..10 : Digits[i] = c) - 1

RECURSIVE DecimalValue(_)
DecimalValue(s) ==
  IF s = <<>> THEN 0
  ELSE 10 * DecimalValue(SubSeq(s, 1, Len(s) - 1)) + DigitVal(s[Len(s)])

AllDigits(s) == s # <<>> /\ \A i \in 1..Len(s) : IsDigit(s[i])

Raise == [ok |-> FALSE]
Value(v) == [ok |-> TRUE, v |-> v]

float_str(s0) ==
  LET s == strip(s0)
  IN  IF s # <<>> /\ Head(s) = "-" /\ AllDigits(Tail(s))
      THEN Value(0 - DecimalValue(Tail(s)))
      ELSE IF AllDigits(s) THEN Value(DecimalValue(s))
      ELSE Raise

float(v) ==
  CASE v.t = "num" -> Value(v.n)
    [] v.t = "str" -> float_str(v.s)
    [] OTHER -> Raise

\* datetime.date.isoformat() for day n of January 2024: zero-padded, fixed
\* width.
isoformat_mutant(n) ==
  <<"2","0","2","4","-","0","1","-">> \o
  (IF n < 10 THEN <<Digits[n + 1]>> ELSE <<Digits[(n \div 10) + 1], Digits[(n % 10) + 1]>>)
isoformat(n) ==
  <<"2","0","2","4","-","0","1","-", Digits[(n \div 10) + 1], Digits[(n % 10) + 1]>>

\* Code-point order of the characters that occur in dates.
CharOrder == <<"-","0","1","2","3","4","5","6","7","8","9">>
ord(c) == CHOOSE i \in 1..Len(CharOrder) : CharOrder[i] = c

\* a <= b on strings (MongoDB / Python string comparison: lexicographic).
RECURSIVE str_lte(_, _)
str_lte(a, b) ==
  IF a = <<>> THEN TRUE
  ELSE IF b = <<>> THEN FALSE
  ELSE IF Head(a) = Head(b) THEN str_lte(Tail(a), Tail(b))
  ELSE ord(Head(a)) < ord(Head(b))

\* ------------------------------------------------------------------- state
VARIABLES
  ads,            \* ads_collection: ad id -> ad document
  performers,     \* performers_collection: documents in insertion order
  daily_stats,    \* daily_stats_collection: documents in insertion order
  events_by_day,  \* events_by_day_collection: date -> the bucket's events
  clock,          \* the server's UTC day (day of January 2024)
  pc,             \* per handler: the storage call it is about to make
  req,            \* per handler: the request and the handler's locals
  resp,           \* the response sent by the step just taken, if any
  started,        \* requests started so far, per route
  nextId,         \* uuid4() values handed out so far, per collection
  ingested,       \* history: the events whose ingest answered 201
  history,        \* history: which kinds of step have happened
  calc_in,        \* calculate_ad_stats called directly: arguments
  calc_out        \* calculate_ad_stats called directly: result

vars == <<ads, performers, daily_stats, events_by_day, clock, pc, req, resp,
          started, nextId, ingested, history, calc_in, calc_out>>

stores == <<ads, performers, daily_stats, events_by_day>>

NoReq == [route |-> "none"]
NoResp == [route |-> "none"]
NoCalc == [route |-> "none"]

Routes == {"create_performer", "create_ad", "update_ad", "delete_ad",
           "send_ad_event", "get_ad_statistics", "get_performer_statistics"}

\* uuid.uuid4(): a value never handed out before.
PerformerIds == << <<"p","1">>, <<"p","2">>, <<"p","3">> >>
AdIds == << <<"a","1">>, <<"a","2">>, <<"a","3">>, <<"a","4">> >>
uuid4(pool, n) == pool[n + 1]

\* The server's clock: the days on which midnight can pass in the model.
ServerDays == <<1, 5, 9>>
today_date == isoformat(ServerDays[clock])

\* The handlers before the first request.
Idle ==
  /\ clock = 1
  /\ pc = [p \in Procs |-> "idle"]
  /\ req = [p \in Procs |-> NoReq]
  /\ resp = NoResp
  /\ started = [r \in Routes |-> 0]
  /\ ingested = <<>>
  /\ history = [deleted |-> FALSE, failures |-> 0, overlap |-> FALSE,
                create_overlap |-> FALSE, failed_updates |-> 0]

\* calculate_ad_stats is reached through the routes only.
NoDirectCall ==
  /\ calc_in = NoCalc
  /\ calc_out = NoCalc

\* A database nothing was ever written to.
EmptyDatabase ==
  /\ ads = <<>>
  /\ performers = <<>>
  /\ daily_stats = <<>>
  /\ events_by_day = <<>>
  /\ nextId = [performers |-> 0, ads |-> 0]

\* A handler returns: the response goes out and the handler is free again.
Return(p, r) ==
  /\ pc' = [pc EXCEPT ![p] = "idle"]
  /\ req' = [req EXCEPT ![p] = NoReq]
  /\ resp' = r

\* A handler goes on to its next storage call.
Goto(p, label, locals) ==
  /\ pc' = [pc EXCEPT ![p] = label]
  /\ req' = [req EXCEPT ![p] = locals]
  /\ resp' = NoResp

\* A free handler takes the request (the lowest-numbered one: the handlers
\* are interchangeable).
Start(p, route, max) ==
  /\ pc[p] = "idle"
  /\ \A q \in Procs : q < p => pc[q] # "idle"
  /\ started["update_ad"] + started["delete_ad"] + started["send_ad_event"]
       + started["get_ad_statistics"] + started["get_performer_statistics"] < MaxRequests
  /\ started[route] < max
  /\ started' = [started EXCEPT ![route] = @ + 1]

\* Midnight UTC passes.
Tick ==
  /\ clock <= MaxTicks
  /\ clock < Len(ServerDays)
  /\ clock' = clock + 1
  /\ resp' = NoResp
  /\ UNCHANGED <<stores, pc, req, started, nextId, ingested, history, calc_in, calc_out>>

\* ------------------------------------------------------------- collections
\* A query filter {field: value, ...} holds of a document that has every field
\* with that value.
matches(doc, filter) ==
  \A field \in DOMAIN filter : field \in DOMAIN doc /\ doc[field] = filter[field]

Indexes(docs, filter) == {i \in 1..Len(docs) : matches(docs[i], filter)}

\* collection.find_one(filter): the first matching document, or None.
find_one(docs, filter) ==
  IF Indexes(docs, filter) = {} THEN Null
  ELSE docs[CHOOSE i \in Indexes(docs, filter) : \A j \in Indexes(docs, filter) : i <= j]

\* collection.delete_many(filter): the documents that do not match, in order.
delete_many(docs, filter) == SelectSeq(docs, LAMBDA doc : ~matches(doc, filter))

\* {'$addToSet': {array: v}}
addToSet(array, v) ==
  IF \E i \in 1..Len(array) : array[i] = v THEN array ELSE Append(array, v)

\* {'$pull': {array: v}}
pull(array, v) == SelectSeq(array, LAMBDA x : x # v)

\* {'$pull': {array: {field: value}}}
pull_matching(array, filter) == SelectSeq(array, LAMBDA x : ~matches(x, filter))

\* ----------------------------------------------------------- string values
c_name == <<"n">>
c_email_a == <<"a","@","b",".","c","o">>
c_email_a_padded == <<" ","a","@","b",".","c","o"," ">>
c_email_c == <<"c","@","b",".","c","o">>
c_email_bad == <<"a","@","b">>
c_url == <<"h","t","t","p",":","/","/","x">>
c_url_bad == <<"f","t","p",":","/","/","x">>
c_app == <<"a","p","p">>
c_timestamp == <<"t","0">>
c_blank == <<" ">>

\* ------------------------------------------------------- validate_email_format
LocalChars == {"a","b","c","."}
DomainChars == {"a","b","c",".","-"}
Letters == {"a","b","c","o"}

\* re.match(r'^[a-zA-Z0-9._%+-]+@[a-zA-Z0-9.-]+\.[a-zA-Z]{2,}$', email), over
\* the characters that occur in the model's addresses.
email_regex(s) ==
  \E i, j \in 1..Len(s) :
    /\ 1 < i /\ i + 1 < j /\ j + 2 <= Len(s)
    /\ s[i] = "@" /\ s[j] = "."
    /\ \A k \in 1..(i - 1) : s[k] \in LocalChars
    /\ \A k \in (i + 1)..(j - 1) : s[k] \in DomainChars
    /\ \A k \in (j + 1)..Len(s) : s[k] \in Letters

validate_email_format(email) ==
  /\ email # <<>>
  /\ strip(email) # <<>>
  /\ email_regex(strip(email))

\* -------------------------------------------------------- create_performer
PerformerRequests ==
  { [name |-> Str(c_name), email |-> Str(e)] :
      e \in {c_email_a, c_email_a_padded, c_email_c, c_email_bad, c_blank} }
  \cup { [name |-> Str(c_name)] }

Created(route, status, id) == [route |-> route, status |-> status, id |-> id]
Reply(route, status, data) == [route |-> route, status |-> status, data |-> data]

\* Another create_performer request has passed its existence check and has not
\* inserted yet.
CreateInFlight(p) == \E q \in Procs \ {p} : pc[q] = "performers.insert_one"

\* The existence check looks the email up as it was sent, untrimmed.
create_performer_start_mutant(p, data) ==
  /\ Start(p, "create_performer", MaxPerformers)
  /\ IF ~({"name", "email"} \subseteq DOMAIN data)
     THEN Return(p, Reply("create_performer", 400, data))
     ELSE LET name == strip(data.name.s)
              email == strip(data.email.s)
              existing == find_one(performers, [email |-> data.email.s])
          IN  IF name = <<>> \/ email = <<>>
              THEN Return(p, Reply("create_performer", 400, data))
              ELSE IF ~validate_email_format(email)
              THEN Return(p, Reply("create_performer", 400, data))
              ELSE IF existing # Null
              THEN Return(p, Created("create_performer", 200, existing._id))
              ELSE Goto(p, "performers.insert_one",
                        [route |-> "create_performer", name |-> name, email |-> email])
  /\ history' = [history EXCEPT !.create_overlap = @ \/ CreateInFlight(p)]
  /\ UNCHANGED <<stores, clock, nextId, ingested, calc_in, calc_out>>
create_performer_start(p, data) ==
  /\ Start(p, "create_performer", MaxPerformers)
  /\ IF ~({"name", "email"} \subseteq DOMAIN data)
     THEN Return(p, Reply("create_performer", 400, data))
     ELSE LET name == strip(data.name.s)
              email == strip(data.email.s)
              existing == find_one(performers, [email |-> email])
          IN  IF name = <<>> \/ email = <<>>
              THEN Return(p, Reply("create_performer", 400, data))
              ELSE IF ~validate_email_format(email)
              THEN Return(p, Reply("create_performer", 400, data))
              ELSE IF existing # Null
              THEN Return(p, Created("create_performer", 200, existing._id))
              ELSE Goto(p, "performers.insert_one",
                        [route |-> "create_performer", name |-> name, email |-> email])
  /\ history' = [history EXCEPT !.create_overlap = @ \/ CreateInFlight(p)]
  /\ UNCHANGED <<stores, clock, nextId, ingested, calc_in, calc_out>>

\* The insert is refused when the email is already stored.
create_performer_insert_mutant(p) ==
  /\ pc[p] = "performers.insert_one"
  /\ LET performer == [_id |-> uuid4(PerformerIds, nextId.performers),
                       name |-> req[p].name, email |-> req[p].email, ads |-> <<>>]
         existing == find_one(performers, [email |-> req[p].email])
     IN  IF existing # Null
         THEN /\ UNCHANGED performers
              /\ Return(p, Created("create_performer", 200, existing._id))
         ELSE /\ performers' = Append(performers, performer)
              /\ Return(p, Created("create_performer", 201, performer._id))
  /\ nextId' = [nextId EXCEPT !.performers = @ + 1]
  /\ UNCHANGED <<ads, daily_stats, events_by_day, clock, started, ingested, history,
                 calc_in, calc_out>>
create_performer_insert(p) ==
  /\ pc[p] = "performers.insert_one"
  /\ LET performer == [_id |-> uuid4(PerformerIds, nextId.performers),
                       name |-> req[p].name, email |-> req[p].email, ads |-> <<>>]
     IN  /\ performers' = Append(performers, performer)
         /\ Return(p, Created("create_performer", 201, performer._id))
  /\ nextId' = [nextId EXCEPT !.performers = @ + 1]
  /\ UNCHANGED <<ads, daily_stats, events_by_day, clock, started, ingested, history,
                 calc_in, calc_out>>

\* ---------------------------------------------------------------- create_ad
AdDetailsInputs ==
  { [videoUrl |-> Str(v), targetUrl |-> Str(c_url), budget |-> Str(b),
     skipTime |-> Num(5), exitTime |-> x] :
      v \in {c_url}, b \in {<<" ","L","o","w">>, s_medium}, x \in {Num(30)} }
  \cup { [videoUrl |-> Str(c_url_bad), targetUrl |-> Str(c_url), budget |-> Str(s_high),
          skipTime |-> Num(5), exitTime |-> Num(30)],
         [videoUrl |-> Str(c_url), targetUrl |-> Str(c_url), budget |-> Str(<<"g","o","l","d">>),
          skipTime |-> Num(5), exitTime |-> Num(30)],
         [videoUrl |-> Str(c_url), targetUrl |-> Str(c_url), budget |-> Str(s_high),
          skipTime |-> Num(5), exitTime |-> Str(<<"x">>)],
         [videoUrl |-> Str(c_url), targetUrl |-> Str(c_url), budget |-> Str(s_high)] }

AdRequests ==
  { [adName |-> Str(c_name), performerEmail |-> Str(e), adDetails |-> d] :
      e \in {c_email_a_padded, c_email_c}, d \in AdDetailsInputs }
  \cup { [adName |-> Str(c_name), performerEmail |-> Str(c_email_a)] }

startswith_http(s) == Len(s) >= 4 /\ SubSeq(s, 1, 4) = <<"h","t","t","p">>

create_ad_start(p, ad_data) ==
  /\ Start(p, "create_ad", MaxAds)
  /\ IF ~({"adName", "performerEmail", "adDetails"} \subseteq DOMAIN ad_data)
     THEN Return(p, Reply("create_ad", 400, ad_data))
     ELSE
     LET performer_email == strip(ad_data.performerEmail.s)
         performer == find_one(performers, [email |-> performer_email])
         ad_details == ad_data.adDetails
     IN
     IF performer = Null THEN Return(p, Reply("create_ad", 404, ad_data))
     ELSE IF ~({"videoUrl", "targetUrl", "budget", "skipTime", "exitTime"}
                 \subseteq DOMAIN ad_details)
     THEN Return(p, Reply("create_ad", 400, ad_data))
     ELSE
     LET video_url == strip(ad_details.videoUrl.s)
         target_url == strip(ad_details.targetUrl.s)
         budget == lower(strip(ad_details.budget.s))
         skip_time == float(ad_details.skipTime)
         exit_time == float(ad_details.exitTime)
     IN
     IF ~skip_time.ok \/ ~exit_time.ok THEN Return(p, Reply("create_ad", 400, ad_data))
     ELSE IF ~startswith_http(video_url) \/ ~startswith_http(target_url)
     THEN Return(p, Reply("create_ad", 400, ad_data))
     ELSE IF budget \notin {s_low, s_medium, s_high}
     THEN Return(p, Reply("create_ad", 400, ad_data))
     ELSE Goto(p, "ads.insert_one",
               [route |-> "create_ad",
                performer_id |-> performer._id,
                ad |-> [name |-> Str(strip(ad_data.adName.s)),
                        performerId |-> Str(performer._id),
                        performerName |-> Str(performer.name),
                        adDetails |-> [videoUrl |-> Str(video_url),
                                       targetUrl |-> Str(target_url),
                                       budget |-> Str(budget),
                                       skipTime |-> Num(skip_time.v),
                                       exitTime |-> Num(exit_time.v)]]])
  /\ UNCHANGED <<stores, clock, nextId, ingested, history, calc_in, calc_out>>

create_ad_insert(p) ==
  /\ pc[p] = "ads.insert_one"
  /\ LET id == uuid4(AdIds, nextId.ads)
     IN  /\ ads' = ads @@ (id :> req[p].ad)
         /\ Goto(p, "performers.addToSet", req[p] @@ [ad_id |-> id])
  /\ nextId' = [nextId EXCEPT !.ads = @ + 1]
  /\ UNCHANGED <<performers, daily_stats, events_by_day, clock, started, ingested,
                 history, calc_in, calc_out>>

create_ad_addToSet(p) ==
  /\ pc[p] = "performers.addToSet"
  /\ performers' = [i \in 1..Len(performers) |->
                      IF performers[i]._id = req[p].performer_id
                      THEN [performers[i] EXCEPT !.ads = addToSet(@, req[p].ad_id)]
                      ELSE performers[i]]
  /\ Return(p, Created("create_ad", 201, req[p].ad_id))
  /\ UNCHANGED <<ads, daily_stats, events_by_day, clock, started, nextId, ingested,
                 history, calc_in, calc_out>>

\* ------------------------------------------------------------ send_ad_event
s_view == <<"v","i","e","w">>
s_click == <<"c","l","i","c","k">>
s_skip == <<"s","k","i","p">>
s_exit == <<"e","x","i","t">>
VALID_TYPES == {s_view, s_click, s_skip, s_exit}

EventDetails(type, duration) ==
  [packageName |-> Str(c_app), eventType |-> type, watchDuration |-> duration]

EventRequest(ad_id, details) ==
  [adId |-> ad_id, timestamp |-> Str(c_timestamp), eventDetails |-> details]

\* Event details that pass validation: one per event type, with padding,
\* capitals and a duration sent as a string among them.
ValidEventDetails ==
  { EventDetails(Str(<<" ","V","i","e","w"," ">>), Num(2)),
    EventDetails(Str(<<"C","L","I","C","K">>), Str(<<" ","3">>)),
    EventDetails(Str(s_skip), Num(0)),
    EventDetails(Str(s_exit), Num(1)) }

InvalidEventDetails ==
  { EventDetails(Str(<<"b","o","u","n","c","e">>), Num(2)),
    EventDetails(Str(c_blank), Num(2)),
    EventDetails(Num(7), Num(2)),
    EventDetails(Str(s_view), Num(0 - 1)),
    EventDetails(Str(s_view), Str(<<"-","1">>)),
    EventDetails(Str(s_view), Str(<<"x">>)),
    EventDetails(Str(s_view), Null),
    [packageName |-> Str(c_blank), eventType |-> Str(s_view), watchDuration |-> Num(2)],
    [packageName |-> Num(7), eventType |-> Str(s_view), watchDuration |-> Num(2)],
    [packageName |-> Str(c_app), eventType |-> Str(s_view)],
    [packageName |-> Str(c_app), watchDuration |-> Num(2)] }

EventRequests ==
  { EventRequest(Str(AdIds[i]), d) : i \in 1..Len(AdIds), d \in ValidEventDetails }
  \cup { EventRequest(Str(AdIds[i]), d) : i \in {1, Len(AdIds)}, d \in InvalidEventDetails }
  \cup { EventRequest(a, EventDetails(Str(s_view), Num(2))) :
           a \in {Str(c_blank), Str(<<>>), Num(1), Null} }
  \cup { [adId |-> Str(AdIds[1]), timestamp |-> t,
          eventDetails |-> EventDetails(Str(s_view), Num(2))] : t \in {Str(<<>>), Num(0), Null} }
  \cup { [adId |-> Str(AdIds[1]), eventDetails |-> EventDetails(Str(s_view), Num(2))],
         [timestamp |-> Str(c_timestamp), eventDetails |-> EventDetails(Str(s_view), Num(2))],
         [adId |-> Str(AdIds[1]), timestamp |-> Str(c_timestamp)] }

\* The validation of lines 803-838: the status it returns, or the validated
\* fields. 500 is the AttributeError of .strip() on a value that is no string,
\* which no handler catches.
validate_event(data) ==
  IF ~({"adId", "timestamp", "eventDetails"} \subseteq DOMAIN data) THEN [status |-> 400]
  ELSE
  LET ad_id == data.adId
      timestamp == data.timestamp
      event_details == data.eventDetails
  IN
  IF ~isinstance_str(ad_id) \/ strip(ad_id.s) = <<>> THEN [status |-> 400]
  ELSE IF ~({"packageName", "eventType", "watchDuration"} \subseteq DOMAIN event_details)
  THEN [status |-> 400]
  ELSE IF ~isinstance_str(event_details.packageName) \/ ~isinstance_str(event_details.eventType)
  THEN [status |-> 500]
  ELSE
  LET package_name == strip(event_details.packageName.s)
      event_type == lower(strip(event_details.eventType.s))
      watch_duration == float(event_details.watchDuration)
  IN
  IF package_name = <<>> \/ event_type = <<>> THEN [status |-> 400]
  ELSE IF ~isinstance_str(timestamp) \/ timestamp.s = <<>> THEN [status |-> 400]
  ELSE IF event_type \notin VALID_TYPES THEN [status |-> 400]
  ELSE IF ~watch_duration.ok THEN [status |-> 400]
  ELSE IF watch_duration.v < 0 THEN [status |-> 400]
  ELSE [status |-> 0, ad_id |-> ad_id.s, package_name |-> package_name,
        timestamp |-> timestamp.s, event_type |-> event_type,
        watch_duration |-> watch_duration.v]

\* The event is added to the bucket only if an equal one is not in it.
push_event_mutant(buckets, date, event_document) ==
  IF date \in DOMAIN buckets
  THEN [buckets EXCEPT ![date] = addToSet(@, event_document)]
  ELSE buckets @@ (date :> <<event_document>>)
\* update_one({"date": today_date}, {"$push": {"events": e}}, upsert=True)
push_event(buckets, date, event_document) ==
  IF date \in DOMAIN buckets
  THEN [buckets EXCEPT ![date] = Append(@, event_document)]
  ELSE buckets @@ (date :> <<event_document>>)

\* The event is logged before the ad is looked up.
send_ad_event_start_mutant(p, data) ==
  /\ Start(p, "send_ad_event", MaxEvents)
  /\ LET v == validate_event(data)
     IN  IF v.status # 0
         THEN UNCHANGED events_by_day /\ Return(p, Reply("send_ad_event", v.status, data))
         ELSE IF v.ad_id \notin DOMAIN ads
         THEN /\ events_by_day' = push_event(events_by_day, today_date,
                                             [adId |-> v.ad_id, eventType |-> v.event_type])
              /\ Return(p, Reply("send_ad_event", 404, data))
         ELSE /\ UNCHANGED events_by_day
              /\ LET performer_id == get(ads[v.ad_id], "performerId", None)
                 IN  IF ~truthy(performer_id)
                     THEN Return(p, Reply("send_ad_event", 500, data))
                     ELSE Goto(p, "events_by_day.update_one",
                               [route |-> "send_ad_event", data |-> data,
                                ad_id |-> v.ad_id, performer_id |-> performer_id,
                                package_name |-> v.package_name, timestamp |-> v.timestamp,
                                event_type |-> v.event_type,
                                watch_duration |-> v.watch_duration])
  /\ UNCHANGED <<ads, performers, daily_stats, clock, nextId, ingested, history,
                 calc_in, calc_out>>
send_ad_event_start(p, data) ==
  /\ Start(p, "send_ad_event", MaxEvents)
  /\ LET v == validate_event(data)
     IN  IF v.status # 0 THEN Return(p, Reply("send_ad_event", v.status, data))
         ELSE IF v.ad_id \notin DOMAIN ads
         THEN Return(p, Reply("send_ad_event", 404, data))
         ELSE LET performer_id == get(ads[v.ad_id], "performerId", None)
              IN  IF ~truthy(performer_id)
                  THEN Return(p, Reply("send_ad_event", 500, data))
                  ELSE Goto(p, "events_by_day.update_one",
                            [route |-> "send_ad_event", data |-> data,
                             ad_id |-> v.ad_id, performer_id |-> performer_id,
                             package_name |-> v.package_name, timestamp |-> v.timestamp,
                             event_type |-> v.event_type,
                             watch_duration |-> v.watch_duration])
  /\ UNCHANGED <<stores, clock, nextId, ingested, history, calc_in, calc_out>>

\* The event is filed under the client's timestamp.
send_ad_event_push_mutant(p) ==
  /\ pc[p] = "events_by_day.update_one"
  /\ LET event_document == [adId |-> req[p].ad_id,
                            performerId |-> req[p].performer_id,
                            packageName |-> req[p].package_name,
                            timestamp |-> req[p].timestamp,
                            eventType |-> req[p].event_type,
                            watchDuration |-> req[p].watch_duration]
     IN  /\ events_by_day' = push_event(events_by_day, req[p].timestamp, event_document)
         /\ Goto(p, "daily_stats.update_one", req[p] @@ [today_date |-> today_date])
  /\ UNCHANGED <<ads, performers, daily_stats, clock, started, nextId, ingested, history,
                 calc_in, calc_out>>
send_ad_event_push(p) ==
  /\ pc[p] = "events_by_day.update_one"
  /\ LET event_document == [adId |-> req[p].ad_id,
                            performerId |-> req[p].performer_id,
                            packageName |-> req[p].package_name,
                            timestamp |-> req[p].timestamp,
                            eventType |-> req[p].event_type,
                            watchDuration |-> req[p].watch_duration]
     IN  /\ events_by_day' = push_event(events_by_day, today_date, event_document)
         /\ Goto(p, "daily_stats.update_one", req[p] @@ [today_date |-> today_date])
  /\ UNCHANGED <<ads, performers, daily_stats, clock, started, nextId, ingested, history,
                 calc_in, calc_out>>

\* {"$inc": {"counts.<event_type>": 1, "watchDurationSum": watch_duration}}
inc_fields_mutant(doc, event_type, watch_duration) ==
  [doc EXCEPT !.counts = (event_type :> 1) @@ @,
              !.watchDurationSum = watch_duration]
inc_fields(doc, event_type, watch_duration) ==
  [doc EXCEPT !.counts = (event_type :> (get(@, event_type, 0) + 1)) @@ @,
              !.watchDurationSum = @ + watch_duration]

\* The filter of the counter update, lines 872-875.
stats_key(performer_id, ad_id, date) ==
  [performerId |-> performer_id, date |-> date]

\* The insert of an upsert: the filter's fields, $setOnInsert and $inc.
upsert_insert(docs, performer_id, ad_id, date, event_type, watch_duration) ==
  Append(docs, inc_fields(stats_key(performer_id, ad_id, date)
                            @@ [adId |-> ad_id, counts |-> <<>>, watchDurationSum |-> 0],
                          event_type, watch_duration))

\* The update replaces the matched document's counters instead of adding to
\* them.
upsert_inc_mutant(docs, performer_id, ad_id, date, event_type, watch_duration) ==
  LET matched == Indexes(docs, stats_key(performer_id, ad_id, date))
  IN  IF matched = {}
      THEN upsert_insert(docs, performer_id, ad_id, date, event_type, watch_duration)
      ELSE LET first == CHOOSE i \in matched : \A j \in matched : i <= j
           IN  [docs EXCEPT ![first] =
                  [@ EXCEPT !.counts = (event_type :> 1),
                            !.watchDurationSum = watch_duration]]
\* daily_stats_collection.update_one(stats_key, {"$inc": ..., "$setOnInsert":
\* {"adId": ad_id, ...}}, upsert=True)
upsert_inc(docs, performer_id, ad_id, date, event_type, watch_duration) ==
  LET matched == Indexes(docs, stats_key(performer_id, ad_id, date))
  IN  IF matched = {}
      THEN upsert_insert(docs, performer_id, ad_id, date, event_type, watch_duration)
      ELSE LET first == CHOOSE i \in matched : \A j \in matched : i <= j
           IN  [docs EXCEPT ![first] = inc_fields(@, event_type, watch_duration)]

SameKeyInFlight(p) ==
  \E q \in Procs \ {p} :
    /\ pc[q] = "daily_stats.update_one"
    /\ req[q].performer_id = req[p].performer_id
    /\ req[q].today_date = req[p].today_date
    /\ req[q].event_type = req[p].event_type

send_ad_event_inc(p) ==
  /\ pc[p] = "daily_stats.update_one"
  /\ daily_stats' = upsert_inc(daily_stats, req[p].performer_id, req[p].ad_id,
                               req[p].today_date, req[p].event_type,
                               req[p].watch_duration)
  /\ ingested' = Append(ingested, [adId |-> req[p].ad_id,
                                   performerId |-> req[p].performer_id,
                                   date |-> req[p].today_date,
                                   eventType |-> req[p].event_type,
                                   watchDuration |-> req[p].watch_duration])
  /\ history' = [history EXCEPT !.overlap = @ \/ SameKeyInFlight(p)]
  /\ Return(p, Reply("send_ad_event", 201, req[p].data))
  /\ UNCHANGED <<ads, performers, events_by_day, clock, started, nextId, calc_in, calc_out>>

\* The same update_one when its filter matched no document and the insert of
\* the upsert is applied later: neither index on the collection (lines 21-29)
\* is unique, so the storage does not serialise two upserts of one key, and
\* each of them can find no document before the other inserts.
send_ad_event_upsert_miss(p) ==
  /\ pc[p] = "daily_stats.update_one"
  /\ Indexes(daily_stats, stats_key(req[p].performer_id, req[p].ad_id,
                                    req[p].today_date)) = {}
  /\ Goto(p, "daily_stats.upsert_insert", req[p])
  /\ UNCHANGED <<stores, clock, started, nextId, ingested, history, calc_in, calc_out>>

send_ad_event_upsert_insert(p) ==
  /\ pc[p] = "daily_stats.upsert_insert"
  /\ daily_stats' = upsert_insert(daily_stats, req[p].performer_id, req[p].ad_id,
                                  req[p].today_date, req[p].event_type,
                                  req[p].watch_duration)
  /\ ingested' = Append(ingested, [adId |-> req[p].ad_id,
                                   performerId |-> req[p].performer_id,
                                   date |-> req[p].today_date,
                                   eventType |-> req[p].event_type,
                                   watchDuration |-> req[p].watch_duration])
  /\ Return(p, Reply("send_ad_event", 201, req[p].data))
  /\ UNCHANGED <<ads, performers, events_by_day, clock, started, nextId, history,
                 calc_in, calc_out>>

\* The handler has appended its event to the day's log and has not completed
\* the counter update.
CounterUpdatePending(p) ==
  pc[p] \in {"daily_stats.update_one", "daily_stats.upsert_insert"}

\* The except clause undoes the append to the day's log.
send_ad_event_raise_mutant(p) ==
  /\ pc[p] \in {"events_by_day.update_one", "daily_stats.update_one",
                "daily_stats.upsert_insert"}
  /\ history.failures < MaxFailures
  /\ history' = [history EXCEPT !.failures = @ + 1,
                                !.failed_updates = @ + (IF CounterUpdatePending(p) THEN 1 ELSE 0)]
  /\ events_by_day' = IF CounterUpdatePending(p)
                      THEN [events_by_day EXCEPT ![req[p].today_date] =
                              pull_matching(@, [adId |-> req[p].ad_id])]
                      ELSE events_by_day
  /\ Return(p, Reply("send_ad_event", 500, req[p].data))
  /\ UNCHANGED <<ads, performers, daily_stats, clock, started, nextId, ingested,
                 calc_in, calc_out>>
\* The storage call raises: the handler's except clause answers 500.
send_ad_event_raise(p) ==
  /\ pc[p] \in {"events_by_day.update_one", "daily_stats.update_one",
                "daily_stats.upsert_insert"}
  /\ history.failures < MaxFailures
  /\ history' = [history EXCEPT !.failures = @ + 1,
                                !.failed_updates = @ + (IF CounterUpdatePending(p) THEN 1 ELSE 0)]
  /\ Return(p, Reply("send_ad_event", 500, req[p].data))
  /\ UNCHANGED <<stores, clock, started, nextId, ingested, calc_in, calc_out>>

\* ---------------------------------------------------------------- update_ad
\* The request body: field path -> new value ('adDetails.budget' is the path
\* <<"adDetails", "budget">>).
UpdateRequests ==
  { (<<"adDetails", "budget">> :> Str(<<"g","o","l","d">>)),
    (<<"adDetails", "budget">> :> Str(<<" ","H","I","G","H">>)),
    (<<"adDetails">> :> [videoUrl |-> Str(c_url)]),
    (<<"performerId">> :> Null),
    (<<"name">> :> Str(<<"m">>)) }

\* {'$set': {path: value}} on one document.
set_path(doc, path, value) ==
  IF Len(path) = 1 THEN (path[1] :> value) @@ doc
  ELSE (path[1] :> ((path[2] :> value) @@ get(doc, path[1], <<>>))) @@ doc

RECURSIVE set_all(_, _, _)
set_all(doc, update_data, paths) ==
  IF paths = {} THEN doc
  ELSE LET path == CHOOSE x \in paths : TRUE
       IN  set_all(set_path(doc, path, update_data[path]), update_data, paths \ {path})

\* update_data['updatedAt'] = now (line 649), then the $set.
with_updatedAt(update_data) == (<<"updatedAt">> :> Str(today_date)) @@ update_data

update_ad(p, ad_id, update_data) ==
  /\ Start(p, "update_ad", MaxUpdates)
  /\ IF ad_id \in DOMAIN ads
     THEN /\ ads' = [ads EXCEPT ![ad_id] =
                       set_all(@, with_updatedAt(update_data),
                               DOMAIN with_updatedAt(update_data))]
          /\ Return(p, Reply("update_ad", 200, update_data))
     ELSE /\ UNCHANGED ads
          /\ Return(p, Reply("update_ad", 404, update_data))
  /\ UNCHANGED <<performers, daily_stats, events_by_day, clock, nextId, ingested,
                 history, calc_in, calc_out>>

\* ---------------------------------------------------------------- delete_ad
delete_ad_start(p, ad_id) ==
  /\ Start(p, "delete_ad", MaxDeletes)
  /\ IF ad_id \notin DOMAIN ads
     THEN Return(p, Reply("delete_ad", 404, ad_id))
     ELSE Goto(p, "ads.delete_one",
               [route |-> "delete_ad", ad_id |-> ad_id,
                performer_id |-> get(ads[ad_id], "performerId", None)])
  /\ UNCHANGED <<stores, clock, nextId, ingested, history, calc_in, calc_out>>

delete_ad_delete_one(p) ==
  /\ pc[p] = "ads.delete_one"
  /\ ads' = [a \in DOMAIN ads \ {req[p].ad_id} |-> ads[a]]
  /\ history' = [history EXCEPT !.deleted = TRUE]
  /\ Goto(p, "performers.pull", req[p])
  /\ UNCHANGED <<performers, daily_stats, events_by_day, clock, started, nextId,
                 ingested, calc_in, calc_out>>

delete_ad_pull(p) ==
  /\ pc[p] = "performers.pull"
  /\ performers' = [i \in 1..Len(performers) |->
                      IF Str(performers[i]._id) = req[p].performer_id
                      THEN [performers[i] EXCEPT !.ads = pull(@, req[p].ad_id)]
                      ELSE performers[i]]
  /\ Goto(p, "events_by_day.update_many", req[p])
  /\ UNCHANGED <<ads, daily_stats, events_by_day, clock, started, nextId, ingested,
                 history, calc_in, calc_out>>

delete_ad_pull_events(p) ==
  /\ pc[p] = "events_by_day.update_many"
  /\ events_by_day' = [d \in DOMAIN events_by_day |->
                         pull_matching(events_by_day[d], [adId |-> req[p].ad_id])]
  /\ Goto(p, "daily_stats.delete_many", req[p])
  /\ UNCHANGED <<ads, performers, daily_stats, clock, started, nextId, ingested,
                 history, calc_in, calc_out>>

\* The counter rows are removed by performer.
delete_ad_delete_stats_mutant(p) ==
  /\ pc[p] = "daily_stats.delete_many"
  /\ daily_stats' = delete_many(daily_stats, [performerId |-> req[p].performer_id])
  /\ Return(p, Reply("delete_ad", 200, req[p].ad_id))
  /\ UNCHANGED <<ads, performers, events_by_day, clock, started, nextId, ingested,
                 history, calc_in, calc_out>>
delete_ad_delete_stats(p) ==
  /\ pc[p] = "daily_stats.delete_many"
  /\ daily_stats' = delete_many(daily_stats, [adId |-> req[p].ad_id])
  /\ Return(p, Reply("delete_ad", 200, req[p].ad_id))
  /\ UNCHANGED <<ads, performers, events_by_day, clock, started, nextId, ingested,
                 history, calc_in, calc_out>>

\* -------------------------------------------------------- get_ad_statistics
\* A date as a client writes it in ?from= and ?to= (YYYY-MM-DD).
query_date(n) ==
  <<"2","0","2","4","-","0","1","-", Digits[(n \div 10) + 1], Digits[(n % 10) + 1]>>

\* request.args: no filter; from=2024-01-02&to=2024-01-10; from=&to=2024-01-01;
\* from=2024-01-05.
QueryArgs ==
  { <<>>,
    [from |-> Str(query_date(2)), to |-> Str(query_date(10))],
    [from |-> Str(<<>>), to |-> Str(query_date(1))],
    [from |-> Str(query_date(5))] }

\* apply_date_filter: the condition it adds to the match on a document's date.
apply_date_filter(date, args) ==
  LET date_from == get(args, "from", None)
      date_to == get(args, "to", None)
  IN  IF truthy(date_from) \/ truthy(date_to)
      THEN /\ truthy(date_from) => str_lte(date_from.s, date)
           /\ truthy(date_to) => str_lte(date, date_to.s)
      ELSE TRUE

RECURSIVE sum_seq(_)
sum_seq(numbers) ==
  IF numbers = <<>> THEN 0 ELSE Head(numbers) + sum_seq(Tail(numbers))

\* {'$sum': '$counts.<type>'} over the documents of a group; a document without
\* the field adds nothing.
sum_counts(docs, type) == sum_seq([i \in 1..Len(docs) |-> get(docs[i].counts, type, 0)])

\* {'$sum': '$watchDurationSum'} over the documents of a group.
sum_watchDurationSum(docs) == sum_seq([i \in 1..Len(docs) |-> docs[i].watchDurationSum])

\* build_stats_pipeline: $match (the filter and the date condition), then one
\* group per adId with the sums.
build_stats_pipeline(docs, filter, args) ==
  LET matched == SelectSeq(docs, LAMBDA d : /\ matches(d, filter)
                                            /\ apply_date_filter(d.date, args))
      ids == {matched[i].adId : i \in 1..Len(matched)}
  IN  [id \in ids |->
         LET group == SelectSeq(matched, LAMBDA d : d.adId = id)
         IN  [_id |-> id,
              views |-> sum_counts(group, s_view),
              clicks |-> sum_counts(group, s_click),
              skips |-> sum_counts(group, s_skip),
              exits |-> sum_counts(group, s_exit),
              watchDurationSum |-> sum_watchDurationSum(group)]]

ZeroTotals == [views |-> 0, clicks |-> 0, skips |-> 0, exits |-> 0, watchDurationSum |-> 0]

get_ad_statistics_start(p, ad_id, args) ==
  /\ Start(p, "get_ad_statistics", MaxStats)
  /\ IF ad_id \notin DOMAIN ads
     THEN Return(p, [route |-> "get_ad_statistics", status |-> 404, adId |-> ad_id,
                     dateRange |-> args])
     ELSE Goto(p, "daily_stats.aggregate",
               [route |-> "get_ad_statistics", ad_id |-> ad_id, args |-> args,
                ad_doc |-> ads[ad_id]])
  /\ UNCHANGED <<stores, clock, nextId, ingested, history, calc_in, calc_out>>

get_ad_statistics_aggregate(p) ==
  /\ pc[p] = "daily_stats.aggregate"
  /\ LET ad_id == req[p].ad_id
         agg == build_stats_pipeline(daily_stats, [adId |-> ad_id], req[p].args)
         totals == IF DOMAIN agg # {} THEN agg[CHOOSE id \in DOMAIN agg : TRUE]
                   ELSE ZeroTotals
         budget == get(get(req[p].ad_doc, "adDetails", <<>>), "budget", Str(<<>>))
     IN  Return(p, [route |-> "get_ad_statistics", status |-> 200, adId |-> ad_id,
                    dateRange |-> req[p].args,
                    adStats |-> calculate_ad_stats(totals, budget)])
  /\ UNCHANGED <<stores, clock, started, nextId, ingested, history, calc_in, calc_out>>

\* -------------------------------------------------- get_performer_statistics
\* The entries are built from the aggregate's groups alone.
stats_list_mutant(ad_ids, agg) ==
  LET listed == SelectSeq(ad_ids, LAMBDA ad_id : ad_id \in DOMAIN agg)
  IN  [i \in 1..Len(listed) |->
         calculate_ad_stats(agg[listed[i]], None)
           @@ [adId |-> listed[i], exits |-> get(agg[listed[i]], "exits", 0)]]
\* The loop over ad_ids: the ad's group if the aggregate has one that belongs to
\* ad_ids, zero totals otherwise.
stats_list(ad_ids, agg) ==
  [i \in 1..Len(ad_ids) |->
     LET ad_id == ad_ids[i]
         stats == IF ad_id \in DOMAIN agg THEN agg[ad_id] ELSE ZeroTotals
     IN  calculate_ad_stats(stats, None)
           @@ [adId |-> ad_id, exits |-> get(stats, "exits", 0)]]

get_performer_statistics_start(p, performer_id, args) ==
  /\ Start(p, "get_performer_statistics", MaxStats)
  /\ LET performer == find_one(performers, [_id |-> performer_id])
     IN  IF performer = Null
         THEN Return(p, [route |-> "get_performer_statistics", status |-> 404,
                         performerId |-> performer_id, dateRange |-> args])
         ELSE Goto(p, "daily_stats.aggregate_by_performer",
                   [route |-> "get_performer_statistics", performer_id |-> performer_id,
                    args |-> args, ad_ids |-> get(performer, "ads", <<>>)])
  /\ UNCHANGED <<stores, clock, nextId, ingested, history, calc_in, calc_out>>

get_performer_statistics_aggregate(p) ==
  /\ pc[p] = "daily_stats.aggregate_by_performer"
  /\ LET agg == build_stats_pipeline(daily_stats,
                                     [performerId |-> Str(req[p].performer_id)],
                                     req[p].args)
     IN  Return(p, [route |-> "get_performer_statistics", status |-> 200,
                    performerId |-> req[p].performer_id, dateRange |-> req[p].args,
                    adsStats |-> stats_list(req[p].ad_ids, agg)])
  /\ UNCHANGED <<stores, clock, started, nextId, ingested, history, calc_in, calc_out>>

\* --------------------------------------------------- calculate_ad_stats alone
MaxViews == 8
MaxClicks == 3
MaxWatchSum == 5

CalcTotals ==
  [views : 0..MaxViews \cup {100}, clicks : 0..MaxClicks \cup {10}, skips : {0, 1},
   exits : {0}, watchDurationSum : 0..MaxWatchSum \cup {2500}]

CalcBudgets ==
  { None, Num(2), Str(<<>>), Str(c_blank), Str(s_low), Str(s_medium), Str(s_high),
    Str(<<" ","M","e","d","i","u","m"," ">>), Str(<<"H","I","G","H">>),
    Str(<<"g","o","l","d">>) }

calc_call ==
  /\ calc_in # NoCalc
  /\ calc_out = NoCalc
  /\ calc_out' = calculate_ad_stats(calc_in.stats_data, calc_in.budget)
  /\ UNCHANGED <<stores, clock, pc, req, resp, started, nextId, ingested, history, calc_in>>

InitCalc ==
  /\ Idle
  /\ EmptyDatabase
  /\ calc_in \in [stats_data : CalcTotals, budget : CalcBudgets]
  /\ calc_out = NoCalc

NextCalc == calc_call

SpecCalc == InitCalc /\ [][NextCalc]_vars

\* ------------------------------------------------------------ specifications
AdIdInputs == {AdIds[i] : i \in 1..Len(AdIds)}

\* SpecSetup: performers and ads are created in an empty database.
InitSetup == Idle /\ EmptyDatabase /\ NoDirectCall

NextSetup ==
  \E p \in Procs :
    \/ \E data \in PerformerRequests : create_performer_start(p, data)
    \/ create_performer_insert(p)
    \/ \E ad_data \in AdRequests : create_ad_start(p, ad_data)
    \/ create_ad_insert(p)
    \/ create_ad_addToSet(p)

SpecSetup == InitSetup /\ [][NextSetup]_vars

\* The database outlives the server process: Spec and SpecIngest start with
\* the handlers idle on a database that earlier requests left behind, the one
\* SpecSetup reaches with two performers and their three ads.
SeededAd(performer_id, budget) ==
  [name |-> Str(c_name), performerId |-> Str(performer_id), performerName |-> Str(c_name),
   adDetails |-> [videoUrl |-> Str(c_url), targetUrl |-> Str(c_url), budget |-> Str(budget),
                  skipTime |-> Num(5), exitTime |-> Num(30)]]

SeededDatabase ==
  /\ performers = << [_id |-> PerformerIds[1], name |-> c_name, email |-> c_email_a,
                      ads |-> <<AdIds[1], AdIds[2]>>],
                     [_id |-> PerformerIds[2], name |-> c_name, email |-> c_email_c,
                      ads |-> <<AdIds[3]>>] >>
  /\ ads = (AdIds[1] :> SeededAd(PerformerIds[1], s_medium))
           @@ (AdIds[2] :> SeededAd(PerformerIds[1], s_low))
           @@ (AdIds[3] :> SeededAd(PerformerIds[2], s_medium))
  /\ daily_stats = <<>>
  /\ events_by_day = <<>>
  /\ nextId = [performers |-> 2, ads |-> 3]

Init == Idle /\ SeededDatabase /\ NoDirectCall

\* Spec: events, statistics, updates and deletions.
MainEventRequests ==
  { EventRequest(Str(AdIds[1]), d) : d \in ValidEventDetails }
  \cup { EventRequest(Str(AdIds[2]), EventDetails(Str(s_view), Num(2))),
         EventRequest(Str(AdIds[3]), EventDetails(Str(s_view), Num(2))),
         EventRequest(Str(AdIds[4]), EventDetails(Str(s_view), Num(2))) }

MainUpdateRequests ==
  { u \in UpdateRequests : DOMAIN u \subseteq {<<"adDetails", "budget">>, <<"adDetails">>} }

MainAdIds == {AdIds[1], AdIds[4]}
MainStatsAdIds == {AdIds[1], AdIds[2], AdIds[4]}

Next ==
  \/ Tick
  \/ \E p \in Procs :
       \/ \E data \in MainEventRequests : send_ad_event_start(p, data)
       \/ \E ad_id \in MainStatsAdIds, args \in QueryArgs :
            get_ad_statistics_start(p, ad_id, args)
       \/ \E ad_id \in MainAdIds, update_data \in MainUpdateRequests :
            update_ad(p, ad_id, update_data)
       \/ \E ad_id \in MainAdIds : delete_ad_start(p, ad_id)
       \/ send_ad_event_push(p)
       \/ send_ad_event_inc(p)
       \/ send_ad_event_upsert_miss(p)
       \/ send_ad_event_upsert_insert(p)
       \/ send_ad_event_raise(p)
       \/ get_ad_statistics_aggregate(p)
       \/ delete_ad_delete_one(p)
       \/ delete_ad_pull(p)
       \/ delete_ad_pull_events(p)
       \/ delete_ad_delete_stats(p)

Spec == Init /\ [][Next]_vars

\* SpecIngest: send_ad_event with every request body of EventRequests.
NextIngest ==
  \E p \in Procs :
    \/ \E data \in EventRequests : send_ad_event_start(p, data)
    \/ send_ad_event_push(p)
    \/ send_ad_event_inc(p)
    \/ send_ad_event_upsert_miss(p)
    \/ send_ad_event_upsert_insert(p)
    \/ send_ad_event_raise(p)

SpecIngest == Init /\ [][NextIngest]_vars
\* SpecReport: a performer's statistics amid ingests and ad deletions.
ReportPerformerIds == {PerformerIds[1], PerformerIds[3]}

NextReport ==
  \/ Tick
  \/ \E p \in Procs :
       \/ \E data \in MainEventRequests : send_ad_event_start(p, data)
       \/ \E performer_id \in ReportPerformerIds, args \in QueryArgs :
            get_performer_statistics_start(p, performer_id, args)
       \/ \E ad_id \in MainAdIds : delete_ad_start(p, ad_id)
       \/ send_ad_event_push(p)
       \/ send_ad_event_inc(p)
       \/ send_ad_event_upsert_miss(p)
       \/ send_ad_event_upsert_insert(p)
       \/ send_ad_event_raise(p)
       \/ get_performer_statistics_aggregate(p)
       \/ delete_ad_delete_one(p)
       \/ delete_ad_pull(p)
       \/ delete_ad_pull_events(p)
       \/ delete_ad_delete_stats(p)

SpecReport == Init /\ [][NextReport]_vars
\* SpecOrphan: send_ad_event with every request body of EventRequests, on ads
\* that update_ad may have rewritten (the performer reference included).
OrphanAdIds == {AdIds[1], AdIds[4]}

NextOrphan ==
  \E p \in Procs :
    \/ \E data \in EventRequests : send_ad_event_start(p, data)
    \/ \E ad_id \in OrphanAdIds, update_data \in UpdateRequests :
         update_ad(p, ad_id, update_data)
    \/ send_ad_event_push(p)
    \/ send_ad_event_inc(p)
    \/ send_ad_event_upsert_miss(p)
    \/ send_ad_event_upsert_insert(p)
    \/ send_ad_event_raise(p)

SpecOrphan == Init /\ [][NextOrphan]_vars
\* SpecClock: one event sent with two client timestamps, one of them naming a
\* day that is not the server's, while midnight may pass.
ClockEventRequests ==
  { [EventRequest(Str(AdIds[1]), EventDetails(Str(s_view), Num(2)))
       EXCEPT !.timestamp = Str(t)] : t \in {c_timestamp, isoformat(9)} }

NextClock ==
  \/ Tick
  \/ \E p \in Procs :
       \/ \E data \in ClockEventRequests : send_ad_event_start(p, data)
       \/ send_ad_event_push(p)
       \/ send_ad_event_inc(p)
       \/ send_ad_event_upsert_miss(p)
       \/ send_ad_event_upsert_insert(p)
       \/ send_ad_event_raise(p)

SpecClock == Init /\ [][NextClock]_vars
\* SpecCatalog: performers and ads are created, updated and deleted, starting
\* from an empty database.
CatalogPerformerRequests ==
  { data \in PerformerRequests :
      "email" \in DOMAIN data /\ data.email \in {Str(c_email_a), Str(c_email_c)} }

CatalogAdRequests ==
  { ad_data \in AdRequests :
      "adDetails" \in DOMAIN ad_data =>
        /\ "exitTime" \in DOMAIN ad_data.adDetails
        /\ ad_data.adDetails.budget = Str(s_medium) }

CatalogAdIds == {AdIds[1], AdIds[2]}

NextCatalog ==
  \E p \in Procs :
    \/ \E data \in CatalogPerformerRequests : create_performer_start(p, data)
    \/ create_performer_insert(p)
    \/ \E ad_data \in CatalogAdRequests : create_ad_start(p, ad_data)
    \/ create_ad_insert(p)
    \/ create_ad_addToSet(p)
    \/ \E ad_id \in CatalogAdIds, update_data \in UpdateRequests :
         update_ad(p, ad_id, update_data)
    \/ \E ad_id \in CatalogAdIds : delete_ad_start(p, ad_id)
    \/ delete_ad_delete_one(p)
    \/ delete_ad_pull(p)
    \/ delete_ad_pull_events(p)
    \/ delete_ad_delete_stats(p)

SpecCatalog == InitSetup /\ [][NextCatalog]_vars

\* ============================================================== properties
\* Hundredths: 25.0 is 2500.
Example == [views |-> 100, clicks |-> 10, skips |-> 0, exits |-> 0, watchDurationSum |-> 2500]

CalcDone == calc_out # NoCalc

\* C6 as stated: deriveStats({views: 100, clicks: 10, watchDurationSum: 2500},
\* budget "medium") yields avgWatchDuration 25.0, clickThroughRate 10.0 and
\* conversionRate 5.0.
C6_AsStated ==
  (CalcDone /\ calc_in.stats_data = Example /\ calc_in.budget = Str(s_medium))
    => /\ calc_out.avgWatchDuration = 2500
       /\ calc_out.clickThroughRate = 1000
       /\ calc_out.conversionRate = 500

\* C6 amended: the same call yields avgWatchDuration 25.0, clickThroughRate
\* 10.0 and conversionRate 500.0 (10 / 2 * 100).
C6_Example ==
  (CalcDone /\ calc_in.stats_data = Example /\ calc_in.budget = Str(s_medium))
    => /\ calc_out.avgWatchDuration = 2500
       /\ calc_out.clickThroughRate = 1000
       /\ calc_out.conversionRate = 50000

C6_Witness ==
  CalcDone /\ calc_in.stats_data = Example /\ calc_in.budget = Str(s_medium)

\* The weight the specification gives each budget tier of CalcBudgets: low 1,
\* medium 2, high 3 whatever the case and the padding, anything else 1.
TierWeight(budget) ==
  CASE budget \in {Str(s_medium), Str(<<" ","M","e","d","i","u","m"," ">>)} -> 2
    [] budget \in {Str(s_high), Str(<<"H","I","G","H">>)} -> 3
    [] OTHER -> 1

\* A tier was supplied: the budget is neither missing nor the empty string.
TierSupplied(budget) == budget \notin {None, Str(<<>>)}

\* x (in hundredths) is num / den * scale exactly.
IsExactly(x, num, den, scale) == x * den = 100 * scale * num

\* x (in hundredths) is num / den * scale rounded to 2 decimal places.
IsRounded(x, num, den, scale) ==
  /\ 2 * (x * den - 100 * scale * num) <= den
  /\ 2 * (100 * scale * num - x * den) <= den

PassedThrough ==
  /\ calc_out.views = calc_in.stats_data.views
  /\ calc_out.clicks = calc_in.stats_data.clicks
  /\ calc_out.skips = calc_in.stats_data.skips

\* C7 as stated: with views > 0, avgWatchDuration = watchDurationSum / views,
\* clickThroughRate = clicks / views * 100 and, when a tier is supplied,
\* conversionRate = clicks / weight * 100; views, clicks and skips pass through.
C7_AsStated ==
  (CalcDone /\ calc_in.stats_data.views > 0) =>
    LET t == calc_in.stats_data
    IN  /\ IsExactly(calc_out.avgWatchDuration, t.watchDurationSum, t.views, 1)
        /\ IsExactly(calc_out.clickThroughRate, t.clicks, t.views, 100)
        /\ TierSupplied(calc_in.budget) =>
             /\ "conversionRate" \in DOMAIN calc_out
             /\ IsExactly(calc_out.conversionRate, t.clicks, TierWeight(calc_in.budget), 100)
        /\ PassedThrough

\* C7 amended: the same three metrics, each rounded to 2 decimal places.
C7_Rounded ==
  (CalcDone /\ calc_in.stats_data.views > 0) =>
    LET t == calc_in.stats_data
    IN  /\ IsRounded(calc_out.avgWatchDuration, t.watchDurationSum, t.views, 1)
        /\ IsRounded(calc_out.clickThroughRate, t.clicks, t.views, 100)
        /\ TierSupplied(calc_in.budget) =>
             /\ "conversionRate" \in DOMAIN calc_out
             /\ IsRounded(calc_out.conversionRate, t.clicks, TierWeight(calc_in.budget), 100)
        /\ PassedThrough

C7_Witness ==
  /\ CalcDone
  /\ calc_in.stats_data.views = 3
  /\ calc_in.stats_data.watchDurationSum = 1
  /\ calc_in.stats_data.clicks = 1
  /\ calc_in.budget = Str(<<" ","M","e","d","i","u","m"," ">>)
  /\ calc_out.avgWatchDuration = 33
  /\ calc_out.conversionRate = 5000

\* C8: with views = 0, avgWatchDuration and clickThroughRate are 0, and so is
\* conversionRate for every supplied budget tier.
C8_ZeroViews ==
  (CalcDone /\ calc_in.stats_data.views = 0) =>
    /\ calc_out.avgWatchDuration = 0
    /\ calc_out.clickThroughRate = 0
    /\ TierSupplied(calc_in.budget) =>
         "conversionRate" \in DOMAIN calc_out /\ calc_out.conversionRate = 0

C8_Witness ==
  /\ CalcDone
  /\ calc_in.stats_data.views = 0
  /\ calc_in.stats_data.clicks = 3
  /\ calc_in.stats_data.watchDurationSum = 5
  /\ calc_in.budget = Str(s_high)
  /\ calc_out.conversionRate = 0

\* ------------------------------------------------------------------ ingest
SeqToSet(seq) == {seq[i] : i \in 1..Len(seq)}

Ingested(filter) == SelectSeq(ingested, LAMBDA e : matches(e, filter))
Rows(filter) == SelectSeq(daily_stats, LAMBDA d : matches(d, filter))
TotalWatched(events) == sum_seq([i \in 1..Len(events) |-> events[i].watchDuration])

CounterKeys ==
  {<<e.performerId, e.date>> : e \in SeqToSet(ingested)}
  \cup {<<d.performerId, d.date>> : d \in SeqToSet(daily_stats)}

\* C1: concurrent ingests of one event type on one daily-counter key lose no
\* update: as long as nothing was deleted, the key's count of every type is the
\* number of ingests of that type answered 201, and its watchDurationSum is the
\* sum of their durations.
C1_NoLostUpdate ==
  ~history.deleted =>
    \A key \in CounterKeys :
      LET rows == Rows([performerId |-> key[1], date |-> key[2]])
          events == Ingested([performerId |-> key[1], date |-> key[2]])
      IN  /\ \A type \in VALID_TYPES :
               sum_counts(rows, type)
                 = Len(SelectSeq(events, LAMBDA e : e.eventType = type))
          /\ sum_watchDurationSum(rows) = TotalWatched(events)

\* Two ingests of one type on one key were both about to update the counter,
\* and both have answered 201.
C1_Witness ==
  /\ history.overlap
  /\ ~history.deleted
  /\ Len(ingested) = 2
  /\ ingested[1].eventType = ingested[2].eventType
  /\ \A p \in Procs : pc[p] = "idle"
  /\ \E i \in 1..Len(daily_stats) :
       /\ get(daily_stats[i].counts, ingested[1].eventType, 0) = 2
       /\ daily_stats[i].watchDurationSum
            = ingested[1].watchDuration + ingested[2].watchDuration

\* The totals get_ad_statistics aggregates for an ad when no date filter is
\* given.
AdTotals(ad_id) ==
  LET agg == build_stats_pipeline(daily_stats, [adId |-> ad_id], <<>>)
  IN  IF ad_id \in DOMAIN agg THEN agg[ad_id] ELSE ZeroTotals

EventsOf(ad_id, type) == Ingested([adId |-> ad_id, eventType |-> type])

StatsAnswered == resp.route = "get_ad_statistics" /\ resp.status = 200

\* C2 as stated: without deletions, get_ad_statistics for an ad with no date
\* filter returns views, clicks and skips equal to the numbers of view, click
\* and skip events ingested for that ad, and the totals it aggregates (exits and
\* watchDurationSum too) are the sums over that ad's events.
C2_AsStated ==
  (StatsAnswered /\ resp.dateRange = <<>> /\ ~history.deleted) =>
    LET a == resp.adId
    IN  /\ resp.adStats.views = Len(EventsOf(a, s_view))
        /\ resp.adStats.clicks = Len(EventsOf(a, s_click))
        /\ resp.adStats.skips = Len(EventsOf(a, s_skip))
        /\ AdTotals(a).exits = Len(EventsOf(a, s_exit))
        /\ AdTotals(a).watchDurationSum
             = TotalWatched(Ingested([adId |-> a]))

\* The counter update the specification describes: the row of (P, A, D) gets
\* count T + 1 and watchDurationSum + d, and is created if it does not exist.
IncrementOfKey(docs, performer_id, ad_id, date, event_type, watch_duration) ==
  LET matched == Indexes(docs, [performerId |-> performer_id, adId |-> ad_id, date |-> date])
  IN  IF matched = {}
      THEN Append(docs, [performerId |-> performer_id, date |-> date, adId |-> ad_id,
                         counts |-> (event_type :> 1),
                         watchDurationSum |-> watch_duration])
      ELSE LET i == CHOOSE i \in matched : TRUE
           IN  [docs EXCEPT ![i] =
                  [@ EXCEPT !.counts = (event_type :> (get(@, event_type, 0) + 1)) @@ @,
                            !.watchDurationSum = @ + watch_duration]]

\* C3 as stated: a successful ingest of type T and duration d for ad A of
\* performer P on date D adds 1 to count T and d to watchDurationSum in the
\* counter of (P, A, D), creating it if needed, and changes no other count and
\* no counter of another ad or date.
C3_AsStated ==
  [][\A p \in Procs :
       send_ad_event_inc(p) =>
         daily_stats' = IncrementOfKey(daily_stats, req[p].performer_id, req[p].ad_id,
                                       req[p].today_date, req[p].event_type,
                                       req[p].watch_duration)]_vars

\* What the specification takes for a valid event, over the values of
\* EventRequests: every field present, adId / packageName / timestamp strings
\* that are not empty (blank counts as empty for adId and packageName), an
\* event type that is view, click, skip or exit once trimmed and lower-cased,
\* and a duration that is a number >= 0 (or a string holding one).
HasAllFields(data) ==
  /\ {"adId", "timestamp", "eventDetails"} \subseteq DOMAIN data
  /\ {"packageName", "eventType", "watchDuration"} \subseteq DOMAIN data.eventDetails

NonEmptyString(v) == v.t = "str" /\ \E i \in 1..Len(v.s) : v.s[i] # " "

AcceptedTypes ==
  { Str(s_view), Str(s_click), Str(s_skip), Str(s_exit),
    Str(<<" ","V","i","e","w"," ">>), Str(<<"C","L","I","C","K">>) }

AcceptedDurations == { Num(0), Num(1), Num(2), Str(<<" ","3">>) }

WellFormed(data) ==
  /\ HasAllFields(data)
  /\ NonEmptyString(data.adId)
  /\ NonEmptyString(data.eventDetails.packageName)
  /\ data.timestamp.t = "str" /\ data.timestamp.s # <<>>
  /\ data.eventDetails.eventType \in AcceptedTypes
  /\ data.eventDetails.watchDuration \in AcceptedDurations

\* The validation failures C5 lists: a missing required field, an empty adId,
\* packageName or timestamp, an event type outside {view, click, skip, exit},
\* a negative or non-numeric duration.
FailsValidation(data) ==
  \/ ~HasAllFields(data)
  \/ /\ HasAllFields(data)
     /\ \/ data.adId.t = "str" /\ ~NonEmptyString(data.adId)
        \/ /\ data.eventDetails.packageName.t = "str"
           /\ ~NonEmptyString(data.eventDetails.packageName)
        \/ data.timestamp = Str(<<>>)
        \/ data.eventDetails.eventType \notin AcceptedTypes
        \/ data.eventDetails.watchDuration \notin AcceptedDurations

LogAndCountersUnchanged == UNCHANGED <<daily_stats, events_by_day>>

\* C4: an otherwise valid event whose ad id matches no stored ad is answered
\* 404, and the counters and the event log are left as they were.
C4_UnknownAd ==
  [][\A p \in Procs, data \in EventRequests :
       (send_ad_event_start(p, data) /\ WellFormed(data) /\ data.adId.s \notin DOMAIN ads)
         => /\ resp' = Reply("send_ad_event", 404, data)
            /\ pc'[p] = "idle"
            /\ LogAndCountersUnchanged]_vars

\* A well-formed event for an unknown ad was just answered 404 while counters
\* and events of other ads exist.
C4_Witness ==
  /\ resp.route = "send_ad_event"
  /\ resp.status = 404
  /\ WellFormed(resp.data)
  /\ resp.data.adId.s \notin DOMAIN ads
  /\ daily_stats # <<>>
  /\ DOMAIN events_by_day # {}

\* C5 as stated: every ingest that fails validation is answered 400 and has no
\* side effect on the event log and the counters.
C5_AsStated ==
  [][\A p \in Procs, data \in EventRequests :
       (send_ad_event_start(p, data) /\ FailsValidation(data))
         => /\ resp' = Reply("send_ad_event", 400, data)
            /\ LogAndCountersUnchanged]_vars

\* -------------------------------------------------------------- statistics
\* The day of the month a YYYY-MM-DD date names.
DayOf(date) == DecimalValue(SubSeq(date, 9, Len(date)))

HasBound(args, side) == side \in DOMAIN args /\ args[side].s # <<>>

\* from <= d <= to on calendar days, a missing bound being unbounded.
InRange(date, args) ==
  /\ HasBound(args, "from") => DayOf(args.from.s) <= DayOf(date)
  /\ HasBound(args, "to") => DayOf(date) <= DayOf(args.to.s)

RowsInRange(ad_id, args) ==
  SelectSeq(Rows([adId |-> ad_id]), LAMBDA d : InRange(d.date, args))

AllZero(stats) ==
  /\ {"views", "clicks", "skips", "avgWatchDuration", "clickThroughRate", "conversionRate"}
       \subseteq DOMAIN stats
  /\ stats.views = 0 /\ stats.clicks = 0 /\ stats.skips = 0
  /\ stats.avgWatchDuration = 0 /\ stats.clickThroughRate = 0 /\ stats.conversionRate = 0

NotFoundAnswered(ad_id, args) ==
  resp' = [route |-> "get_ad_statistics", status |-> 404, adId |-> ad_id, dateRange |-> args]

\* C9 as stated: get_ad_statistics answers not-found if and only if no ad with
\* the id exists; for an existing ad without counter rows, or without any in
\* the requested range, it returns views, clicks, skips, avgWatchDuration,
\* clickThroughRate and conversionRate all zero.
C9_AsStated ==
  /\ [][\A p \in Procs, ad_id \in AdIdInputs, args \in QueryArgs :
          get_ad_statistics_start(p, ad_id, args)
            => (NotFoundAnswered(ad_id, args) <=> ad_id \notin DOMAIN ads)]_vars
  /\ []((StatsAnswered /\ RowsInRange(resp.adId, resp.dateRange) = <<>>)
          => AllZero(resp.adStats))

\* C10: a statistics query aggregates exactly the counter rows of the ad whose
\* date d satisfies from <= d <= to, both ends inclusive, a missing bound being
\* unbounded.
C10_DateRange ==
  StatsAnswered =>
    LET rows == RowsInRange(resp.adId, resp.dateRange)
        views == sum_counts(rows, s_view)
    IN  /\ resp.adStats.views = views
        /\ resp.adStats.clicks = sum_counts(rows, s_click)
        /\ resp.adStats.skips = sum_counts(rows, s_skip)
        /\ views > 0 =>
             IsRounded(resp.adStats.avgWatchDuration,
                       sum_watchDurationSum(rows), views, 1)

\* The example: counters dated 2024-01-01 and 2024-01-05 for one ad, each with
\* a view; from=2024-01-02&to=2024-01-10 counts the second only.
C10_Witness ==
  /\ StatsAnswered
  /\ resp.dateRange = [from |-> Str(query_date(2)), to |-> Str(query_date(10))]
  /\ Len(daily_stats) = 2
  /\ daily_stats[1].adId = resp.adId /\ daily_stats[2].adId = resp.adId
  /\ daily_stats[1].date = query_date(1) /\ daily_stats[2].date = query_date(5)
  /\ get(daily_stats[1].counts, s_view, 0) = 1
  /\ get(daily_stats[2].counts, s_view, 0) = 1
  /\ resp.adStats.views = 1
\* ------------------------------------------------------ performer statistics
Owned(performer_id) ==
  {i \in 1..Len(performers) : performers[i]._id = performer_id}

PerformerRowsInRange(performer_id, ad_id, args) ==
  SelectSeq(Rows([performerId |-> Str(performer_id), adId |-> ad_id]),
            LAMBDA d : InRange(d.date, args))

EntryOf(entry, performer_id, ad_id, args) ==
  LET rows == PerformerRowsInRange(performer_id, ad_id, args)
  IN  /\ entry.adId = ad_id
      /\ entry.views = sum_counts(rows, s_view)
      /\ entry.clicks = sum_counts(rows, s_click)
      /\ entry.skips = sum_counts(rows, s_skip)
      /\ entry.exits = sum_counts(rows, s_exit)
      /\ rows = <<>> => /\ entry.views = 0 /\ entry.clicks = 0
                        /\ entry.skips = 0 /\ entry.exits = 0
                        /\ entry.avgWatchDuration = 0 /\ entry.clickThroughRate = 0

\* C11: get_performer_statistics answers not-found exactly for a performer id
\* that is not stored; for a stored performer it reads the performer's ads
\* list and answers with one entry per ad id of that list, in the list's order,
\* each ad id once and no other ad; an entry's counts are the sums over the
\* performer's counter rows of that ad in the requested range, all zero when
\* there are none.
C11_PerformerReport ==
  [][/\ resp'.route = "get_performer_statistics"
          => (resp'.status = 404 <=> Owned(resp'.performerId) = {})
     /\ \A p \in Procs :
          /\ (pc[p] = "idle" /\ pc'[p] = "daily_stats.aggregate_by_performer")
               => \E i \in Owned(req'[p].performer_id) :
                    /\ req'[p].ad_ids = performers[i].ads
                    /\ \A j, k \in 1..Len(performers[i].ads) :
                         performers[i].ads[j] = performers[i].ads[k] => j = k
          /\ (pc[p] = "daily_stats.aggregate_by_performer" /\ pc'[p] = "idle")
               => /\ resp'.status = 200
                  /\ Len(resp'.adsStats) = Len(req[p].ad_ids)
                  /\ \A i \in 1..Len(req[p].ad_ids) :
                       EntryOf(resp'.adsStats[i], req[p].performer_id,
                               req[p].ad_ids[i], req[p].args)]_vars

\* The performer of two ads is answered: the first ad with one view, the
\* second, which has no counter row, with zeros.
C11_Witness ==
  /\ resp.route = "get_performer_statistics"
  /\ resp.status = 200
  /\ Len(resp.adsStats) = 2
  /\ resp.adsStats[1].adId = AdIds[1] /\ resp.adsStats[1].views = 1
  /\ resp.adsStats[2].adId = AdIds[2] /\ resp.adsStats[2].views = 0
  /\ resp.adsStats[2].exits = 0
  /\ Rows([adId |-> AdIds[2]]) = <<>>
\* ------------------------------------------------------------ counter rows
SameCounterKey(a, b) ==
  a.performerId = b.performerId /\ a.adId = b.adId /\ a.date = b.date

NeverEmpty ==
  \A i \in 1..Len(daily_stats) :
    \E type \in DOMAIN daily_stats[i].counts : daily_stats[i].counts[type] >= 1

\* C12 as stated: in every reachable state the daily counter store holds at
\* most one row per key (performer id, ad id, calendar date), and every row
\* has at least one event count >= 1.
C12_AsStated ==
  /\ \A i, j \in 1..Len(daily_stats) :
       SameCounterKey(daily_stats[i], daily_stats[j]) => i = j
  /\ NeverEmpty
\* ------------------------------------------------------------- delete_ad
DeleteAnswered == resp.route = "delete_ad" /\ resp.status = 200

LoggedEvents ==
  UNION {SeqToSet(events_by_day[date]) : date \in DOMAIN events_by_day}

\* The events answered 201 of a performer, date and type that are not of ad_id.
IngestedOfOthers(key, type, ad_id) ==
  SelectSeq(Ingested([performerId |-> key[1], date |-> key[2], eventType |-> type]),
            LAMBDA e : e.adId # ad_id)

\* C13 as stated: when delete_ad(A) answers 200, A is in no performer's ads
\* list, no day's event log holds an event with adId = A, the counter store
\* has no row for A, and the counts of the remaining rows do not include A's
\* events: per performer, date and type they count no more than the ingested
\* events of other ads.
C13_AsStated ==
  DeleteAnswered =>
    LET A == resp.data
    IN  /\ \A i \in 1..Len(performers) : A \notin SeqToSet(performers[i].ads)
        /\ \A e \in LoggedEvents : e.adId # A
        /\ Rows([adId |-> A]) = <<>>
        /\ \A key \in CounterKeys, type \in VALID_TYPES :
             sum_counts(Rows([performerId |-> key[1], date |-> key[2]]), type)
               <= Len(IngestedOfOthers(key, type, A))
\* ------------------------------------------------- counters against the log
Quiescent == \A p \in Procs : pc[p] = "idle"

LogOf(date) == IF date \in DOMAIN events_by_day THEN events_by_day[date] ELSE <<>>

LogKeys ==
  CounterKeys
  \cup UNION {{<<e.performerId, date>> : e \in SeqToSet(events_by_day[date])} :
                date \in DOMAIN events_by_day}

LoggedOf(key, type) ==
  SelectSeq(LogOf(key[2]), LAMBDA e : e.performerId = key[1] /\ e.eventType = type)

LoggedBy(key) == SelectSeq(LogOf(key[2]), LAMBDA e : e.performerId = key[1])

\* C14 as stated: whenever no request is in progress and no storage operation
\* has failed, for every performer, date and event type the total of the
\* type's count over the performer's counter rows of the date equals the number
\* of the performer's events of that type in the date's log bucket, and the
\* total watchDurationSum equals the sum of those events' durations.
C14_AsStated ==
  (Quiescent /\ history.failures = 0) =>
    \A key \in LogKeys :
      LET rows == Rows([performerId |-> key[1], date |-> key[2]])
      IN  /\ \A type \in VALID_TYPES :
               sum_counts(rows, type) = Len(LoggedOf(key, type))
          /\ sum_watchDurationSum(rows) = TotalWatched(LoggedBy(key))
\* --------------------------------------------------------- monotone counters
DeleteManyStep ==
  \E p \in Procs : pc[p] = "daily_stats.delete_many" /\ pc'[p] = "idle"

NotDecreased(old, new) ==
  /\ SameCounterKey(old, new)
  /\ \A type \in DOMAIN old.counts : get(new.counts, type, 0) >= old.counts[type]
  /\ new.watchDurationSum >= old.watchDurationSum

\* C15: a step other than delete_ad's removal of counter rows keeps every
\* counter row and decreases none of its event counts nor its
\* watchDurationSum; delete_ad's removal leaves the rows it keeps as they were.
C15_Monotone ==
  [][IF DeleteManyStep
     THEN SeqToSet(daily_stats') \subseteq SeqToSet(daily_stats)
     ELSE /\ Len(daily_stats') >= Len(daily_stats)
          /\ \A i \in 1..Len(daily_stats) :
               NotDecreased(daily_stats[i], daily_stats'[i])]_vars

\* A counter row that was created by a view and incremented by a click.
C15_Witness ==
  /\ Len(daily_stats) = 1
  /\ get(daily_stats[1].counts, s_view, 0) = 1
  /\ get(daily_stats[1].counts, s_click, 0) = 1
  /\ daily_stats[1].watchDurationSum = 5
\* -------------------------------------------------------------------- retry
\* The same payload was submitted twice on one day, both submissions have
\* answered 201, and nothing else was submitted or deleted.
Retried ==
  /\ started["send_ad_event"] = 2
  /\ Len(ingested) = 2
  /\ ingested[1] = ingested[2]
  /\ ~history.deleted

LoggedLike(e) ==
  SelectSeq(LogOf(e.date),
            LAMBDA x : /\ x.adId = e.adId /\ x.performerId = e.performerId
                       /\ x.eventType = e.eventType
                       /\ x.watchDuration = e.watchDuration)

\* C16: a valid payload submitted twice is counted twice: the count of its
\* event type is 2, watchDurationSum is twice the duration, and the day's log
\* holds two such events.
C16_Retry ==
  Retried =>
    LET e == ingested[1]
        rows == Rows([performerId |-> e.performerId, date |-> e.date])
    IN  /\ sum_counts(rows, e.eventType) = 2
        /\ sum_watchDurationSum(rows) = 2 * e.watchDuration
        /\ Len(LoggedLike(e)) = 2

\* The view of 2 seconds of the first ad, submitted and then retried.
C16_Witness ==
  /\ Retried
  /\ Quiescent
  /\ ingested[1].adId = AdIds[1]
  /\ ingested[1].eventType = s_view
  /\ Len(daily_stats) = 1
  /\ daily_stats[1].counts[s_view] = 2
  /\ daily_stats[1].watchDurationSum = 4
\* --------------------------------------------------------------- performers
UniqueEmails ==
  \A i, j \in 1..Len(performers) :
    performers[i].email = performers[j].email => i = j

Holders(email) == {i \in 1..Len(performers) : performers[i].email = email}

\* C17: as long as no create_performer request started while another was
\* between its existence check and its insert, no two stored performers share
\* an email; and a create with a name whose trimmed email belongs to a stored
\* performer answers 200 with that performer's id and inserts nothing.
C17_UniqueEmail ==
  /\ [](~history.create_overlap => UniqueEmails)
  /\ [][\A p \in Procs, data \in PerformerRequests :
          (/\ create_performer_start(p, data)
           /\ {"name", "email"} \subseteq DOMAIN data
           /\ strip(data.name.s) # <<>>
           /\ Holders(strip(data.email.s)) # {})
            => /\ get(resp', "status", 0) = 200
               /\ \E i \in Holders(strip(data.email.s)) :
                    get(resp', "id", <<>>) = performers[i]._id
               /\ performers' = performers
               /\ pc'[p] = "idle"]_vars

\* A performer is stored and a second create for its email was answered 200
\* with its id.
C17_Witness ==
  /\ ~history.create_overlap
  /\ Len(performers) = 1
  /\ started["create_performer"] = 2
  /\ resp.route = "create_performer"
  /\ resp.status = 200
  /\ resp.id = performers[1]._id
InsertStep(p) == pc[p] = "performers.insert_one" /\ pc'[p] = "idle"

\* C18: a create_performer request that has passed the existence check inserts
\* a performer with a fresh id and answers 201, whatever was stored since the
\* check; so two overlapping requests with one email leave two performers with
\* that email, each reported as created.
C18_BothCreated ==
  [][\A p \in Procs :
       InsertStep(p) =>
         /\ Len(performers') = Len(performers) + 1
         /\ performers'[Len(performers')].email = req[p].email
         /\ \A i \in 1..Len(performers) :
              /\ performers'[i] = performers[i]
              /\ performers'[i]._id # performers'[Len(performers')]._id
         /\ resp' = Created("create_performer", 201, performers'[Len(performers')]._id)]_vars

\* Two requests overlapped and two performers with distinct ids hold one
\* email; the second insert has just answered 201.
C18_Witness ==
  /\ history.create_overlap
  /\ Len(performers) = 2
  /\ performers[1].email = performers[2].email
  /\ performers[1]._id # performers[2]._id
  /\ resp = Created("create_performer", 201, performers[2]._id)
  /\ Quiescent
\* ------------------------------------------------------------- budget tiers
BudgetTiers == {Str(s_low), Str(s_medium), Str(s_high)}

BudgetOf(ad) == get(get(ad, "adDetails", <<>>), "budget", None)

\* C19 as stated: every stored ad's budget tier is one of low, medium, high.
C19_AsStated ==
  \A ad_id \in DOMAIN ads : BudgetOf(ads[ad_id]) \in BudgetTiers
\* ------------------------------------------------- failed counter update
TotalLogged ==
  sum_seq([i \in 1..Len(ServerDays) |-> Len(LogOf(isoformat(ServerDays[i])))])

CountedIn(doc) ==
  LET types == [i \in 1..4 |-> <<s_view, s_click, s_skip, s_exit>>[i]]
  IN  sum_seq([i \in 1..4 |-> get(doc.counts, types[i], 0)])

TotalCounted == sum_seq([i \in 1..Len(daily_stats) |-> CountedIn(daily_stats[i])])

EventOf(r) ==
  [adId |-> r.ad_id, performerId |-> r.performer_id, packageName |-> r.package_name,
   timestamp |-> r.timestamp, eventType |-> r.event_type,
   watchDuration |-> r.watch_duration]

\* C20: when the counter update of an ingest fails after its event was
\* appended to the log, the ingest answers 500, the event stays in the log and
\* the counters are unchanged; so once no request is in progress the log holds
\* one more event than the counters count for every such failure.
C20_Divergence ==
  /\ [][\A p \in Procs :
          (CounterUpdatePending(p) /\ pc'[p] = "idle" /\ get(resp', "status", 0) = 500)
            => /\ resp' = Reply("send_ad_event", 500, req[p].data)
               /\ daily_stats' = daily_stats
               /\ events_by_day' = events_by_day
               /\ EventOf(req[p]) \in SeqToSet(LogOf(req[p].today_date))]_vars
  /\ [](Quiescent => TotalLogged = TotalCounted + history.failed_updates)

\* One ingest appended its event and failed on the counter update: one event
\* is logged, nothing is counted.
C20_Witness ==
  /\ Quiescent
  /\ history.failed_updates = 1
  /\ resp.route = "send_ad_event" /\ resp.status = 500
  /\ TotalLogged = 1
  /\ daily_stats = <<>>
\* ------------------------------------------------------- order of the checks
Orphan(ad) == ~truthy(get(ad, "performerId", None))

Answered(status, data) == resp' = Reply("send_ad_event", status, data)

\* C21 as stated: ingest validates the payload first (400), then looks the ad
\* up (404), then checks the ad's performer reference (500): an invalid
\* payload is answered 400 whether or not its ad exists, a valid one for an
\* unknown ad 404, and a valid one for an ad without performer reference 500
\* with the event log and the counters unchanged.
C21_AsStated ==
  [][\A p \in Procs, data \in EventRequests :
       send_ad_event_start(p, data)
         => IF ~WellFormed(data) THEN Answered(400, data)
            ELSE IF data.adId.s \notin DOMAIN ads THEN Answered(404, data)
            ELSE IF Orphan(ads[data.adId.s])
                 THEN Answered(500, data) /\ LogAndCountersUnchanged
                 ELSE pc'[p] = "events_by_day.update_one"]_vars
\* --------------------------------------------------------- date of an ingest
AppendStep(p) ==
  pc[p] = "events_by_day.update_one" /\ pc'[p] = "daily_stats.update_one"

CountedStep(p) ==
  CounterUpdatePending(p) /\ pc'[p] = "idle" /\ get(resp', "status", 0) = 201

ServerDate == isoformat(ServerDays[clock])

\* C22: an ingest appends its event, with the client's timestamp stored as it
\* was sent, to the log bucket of the server's date at that moment and to no
\* other bucket, whatever the timestamp says; and the counter rows it then
\* changes or creates carry that same date, even if midnight has passed since.
C22_ServerDate ==
  [][\A p \in Procs :
       /\ AppendStep(p) =>
            /\ DOMAIN events_by_day' = DOMAIN events_by_day \cup {ServerDate}
            /\ events_by_day'[ServerDate] = Append(LogOf(ServerDate), EventOf(req[p]))
            /\ EventOf(req[p]).timestamp = req[p].data.timestamp.s
            /\ \A date \in DOMAIN events_by_day \ {ServerDate} :
                 events_by_day'[date] = events_by_day[date]
            /\ req'[p].today_date = ServerDate
       /\ CountedStep(p) =>
            /\ EventOf(req[p]) \in SeqToSet(LogOf(req[p].today_date))
            /\ Len(daily_stats') >= Len(daily_stats)
            /\ daily_stats' # daily_stats
            /\ \A i \in 1..Len(daily_stats') :
                 (i > Len(daily_stats) \/ daily_stats'[i] # daily_stats[i])
                   => daily_stats'[i].date = req[p].today_date]_vars

\* The same event was ingested on 2024-01-01 with the timestamp "t0" and with
\* the timestamp "2024-01-09": both are in the bucket of 2024-01-01, timestamps
\* as sent, and the only counter row, dated 2024-01-01, counts two views.
C22_Witness ==
  /\ Quiescent
  /\ DOMAIN events_by_day = {isoformat(1)}
  /\ {events_by_day[isoformat(1)][i].timestamp : i \in 1..Len(events_by_day[isoformat(1)])}
       = {c_timestamp, isoformat(9)}
  /\ Len(daily_stats) = 1
  /\ daily_stats[1].date = isoformat(1)
  /\ daily_stats[1].counts[s_view] = 2
\* ------------------------------------------------------ frame of update_ad
Absent == [t |-> "absent"]

\* The fields of an ad, nested ones by their path.
LeafPaths ==
  {<<"name">>, <<"performerId">>, <<"performerName">>}
  \cup {<<"adDetails", f>> : f \in {"videoUrl", "targetUrl", "budget", "skipTime", "exitTime"}}

FieldAt(ad, path) ==
  IF Len(path) = 1 THEN get(ad, path[1], Absent)
  ELSE get(get(ad, path[1], <<>>), path[2], Absent)

\* A field is supplied by its path or inside a supplied parent object.
Supplied(update_data, path) ==
  \/ path \in DOMAIN update_data
  \/ /\ Len(path) = 2
     /\ <<path[1]>> \in DOMAIN update_data
     /\ path[2] \in DOMAIN update_data[<<path[1]>>]

SuppliedValue(update_data, path) ==
  IF path \in DOMAIN update_data THEN update_data[path]
  ELSE update_data[<<path[1]>>][path[2]]

\* C23 as stated: update_ad on an existing ad sets the supplied fields and
\* updatedAt, leaves every field that was not supplied, nested ones included,
\* as it was, and changes no other ad, no performer, no event log and no
\* counter; on an unknown ad id it answers 404 and changes nothing.
C23_AsStated ==
  [][\A p \in Procs, ad_id \in AdIdInputs, update_data \in UpdateRequests :
       update_ad(p, ad_id, update_data)
         => IF ad_id \in DOMAIN ads
            THEN /\ FieldAt(ads'[ad_id], <<"updatedAt">>) = Str(ServerDate)
                 /\ \A path \in LeafPaths :
                      FieldAt(ads'[ad_id], path)
                        = IF Supplied(update_data, path)
                          THEN SuppliedValue(update_data, path)
                          ELSE FieldAt(ads[ad_id], path)
                 /\ DOMAIN ads' = DOMAIN ads
                 /\ \A other \in DOMAIN ads \ {ad_id} : ads'[other] = ads[other]
                 /\ UNCHANGED <<performers, events_by_day, daily_stats>>
            ELSE /\ resp' = Reply("update_ad", 404, update_data)
                 /\ UNCHANGED stores]_vars
\* ------------------------------------------------------ frame of delete_ad
DeleteStep(p) ==
  /\ pc[p] \in {"ads.delete_one", "performers.pull", "events_by_day.update_many",
                "daily_stats.delete_many"}
  /\ pc'[p] # pc[p]

EventsOfAd(buckets, ad_id) ==
  [date \in DOMAIN buckets |-> SelectSeq(buckets[date], LAMBDA e : e.adId = ad_id)]

RowsOfAd(docs, ad_id) == SelectSeq(docs, LAMBDA d : d.adId = ad_id)

\* What get_ad_statistics answers for a stored ad on the given counter rows.
AdStatsOn(docs, ad_doc, ad_id, args) ==
  LET agg == build_stats_pipeline(docs, [adId |-> ad_id], args)
  IN  calculate_ad_stats(IF ad_id \in DOMAIN agg THEN agg[ad_id] ELSE ZeroTotals,
                         BudgetOf(ad_doc))

\* The entry of an owned ad in what get_performer_statistics answers.
PerformerEntryOn(docs, performer_id, ad_id, args) ==
  stats_list(<<ad_id>>, build_stats_pipeline(docs, [performerId |-> performer_id], args))[1]

C25_AsStated ==
  Quiescent =>
    \A A \in AdIdInputs \ DOMAIN ads :
      /\ \A e \in LoggedEvents : e.adId # A
      /\ RowsOfAd(daily_stats, A) = <<>>
\* ------------------------------------------------------ ads and their owners
Owns(i, ad_id) ==
  ad_id \in DOMAIN ads /\ get(ads[ad_id], "performerId", None) = Str(performers[i]._id)

\* C26 as stated: whenever no request is in progress, an ad id is in a
\* performer's ads list if and only if an ad with that id is stored and its
\* performerId is that performer; and create_ad with all its fields for an
\* email that no stored performer has answers 404 and stores no ad.
C26_AsStated ==
  /\ [](Quiescent =>
          \A i \in 1..Len(performers), ad_id \in AdIdInputs :
            ad_id \in SeqToSet(performers[i].ads) <=> Owns(i, ad_id))
  /\ [][\A p \in Procs, ad_data \in AdRequests :
          (/\ create_ad_start(p, ad_data)
           /\ {"adName", "performerEmail", "adDetails"} \subseteq DOMAIN ad_data
           /\ Holders(strip(ad_data.performerEmail.s)) = {})
            => /\ resp' = Reply("create_ad", 404, ad_data)
               /\ ads' = ads
               /\ pc'[p] = "idle"]_vars

====
